---- MODULE Spec2Model ----
(***************************************************************************)
(* Storage report of device_stats.py (main, lines 338-633): the            *)
(* proportional disk-usage breakdown of the container filesystem, of the   *)
(* network volume and of the directory given on the command line.          *)
(*                                                                         *)
(* Sizes are counted in blocks of 20 MB, so that 10^9 bytes are GB blocks; *)
(* Python floats are modelled as exact rationals <<numerator, denominator>>*)
(* in lowest terms (denominator > 0).  A path is the sequence of line      *)
(* numbers that leads to it from the root of the section: <<>> is the      *)
(* queried root, <<i>> its i-th enumerated child, <<i, j>> a grandchild.   *)
(***************************************************************************)
EXTENDS Integers, Sequences, FiniteSets, TLC

\* ----- bounds of the explored inputs -----
MaxRoot == 2
MaxSub == 2
MaxDir == 3
MaxOver == 1
MaxAllocs == 3
MaxSnaps == 3
RawSizes == {0, 1, 2}
LongSizes == {1, 2}
UsedGb == {0, 1, 3, 4}
VolUsages == {0, 4, 32, 150}
DuTotals == {0, 25, 100}
DirTotals == {0, 1, 4}
AllocSizes == {1, 32}

\* ----- program constants -----
GB == 50
TopRoot == 5
TopSub == 3
TopDir == 20
MaxDepth == 2

VARIABLES
    pc,             \* position in main()
    root,           \* section: "container", "volume", or "dir_container" / "dir_volume"
                    \* for the breakdown of a directory on either filesystem
    actual_used,    \* bytes the root level is scaled to (actual_used_bytes / ai_volume_usage_bytes)
    total_gb,       \* value printed as Total (used / ai_volume_usage_gb / estimated_total_gb)
    scale_factor,   \* factor applied to the raw sizes of the root level
    dirs,           \* container_dirs / vol_dirs: parsed (size_bytes, path)
    total_bytes,    \* sum of the parsed raw sizes
    scaled_all,     \* every value taken by scaled_gb in the scaling loop, in enumeration order
    scaled_dirs,    \* scaled_dirs / subdirs: (scaled_gb, path) kept by the threshold, sorted
    idx,            \* position of the display loop in scaled_dirs[:5]
    sub_dirs,       \* parsed children of the current entry
    sub_total,      \* sum of their raw sizes
    sub_all,        \* every value taken by sub_gb
    sub_scaled,     \* (sub_gb, sub_path) kept by the threshold, sorted
    other,          \* remainder computed after the loop; <<>> while not computed
    calls,          \* paths du was run on in this section, in order
    status,         \* how the command run by the last step ended; "none" if it ran none
    du_total_bytes, \* sum du reported for the filesystem of the directory; -1 while not read
    out,            \* lines printed by the last step
    gds_lines,      \* get_directory_sizes: lines of the output of du it was last called on
    gds_sizes,      \* get_directory_sizes: the list it returned last
    allocations,    \* profile_tinygrad_memory: the records appended by patched_alloc
    memory_timeline,\* profile_tinygrad_memory: the snapshots appended by track_memory
    original_calls, \* calls of original_cuda_alloc made by the last step
    result          \* the call of patched_alloc made by the last step, with the value it
                    \* returned (-1: the exception went through); 0 if the step made none

vars == <<pc, root, actual_used, total_gb, scale_factor, dirs, total_bytes, scaled_all, scaled_dirs,
          idx, sub_dirs, sub_total, sub_all, sub_scaled, other, calls, status, du_total_bytes, out,
          gds_lines, gds_sizes, allocations, memory_timeline, original_calls, result>>

\* the state of the functions main() does not call
apart == <<gds_lines, gds_sizes, allocations, memory_timeline, original_calls, result>>

\* ----- exact arithmetic -----
Abs(x) == IF x < 0 THEN -x ELSE x

RECURSIVE GCD(_, _)
GCD(a, b) == IF b = 0 THEN a ELSE GCD(b, a % b)

Rat(n, d) == LET g == GCD(Abs(n), d) IN <<n \div g, d \div g>>
RInt(i) == <<i, 1>>
RMul(a, b) == Rat(a[1] * b[1], a[2] * b[2])
RDiv(a, b) == Rat(a[1] * b[2], a[2] * b[1])
RAdd(a, b) == Rat(a[1] * b[2] + b[1] * a[2], a[2] * b[2])
RSub(a, b) == Rat(a[1] * b[2] - b[1] * a[2], a[2] * b[2])
RLt(a, b) == a[1] * b[2] < b[1] * a[2]
RGe(a, b) == ~RLt(a, b)
RGt(a, b) == RLt(b, a)

RECURSIVE RSum(_)
RSum(s) == IF s = <<>> THEN RInt(0) ELSE RAdd(Head(s), RSum(Tail(s)))

RECURSIVE Sum(_)
Sum(s) == IF s = <<>> THEN 0 ELSE Head(s) + Sum(Tail(s))

\* the slice is forgotten: the whole list is displayed
TakeAll(s, n) == s

Take(s, n) == SubSeq(s, 1, IF Len(s) < n THEN Len(s) ELSE n)

\* round(bytes_val / 1000000000, 1)
bytes_to_gb(b) ==
    LET tenth == GB \div 10
        q == b \div tenth
        r == b % tenth
    IN  Rat(IF 2 * r > tenth THEN q + 1 ELSE q, 10)

\* ----- the Sampler: du --block-size=1 --max-depth=1 -----
\* listings of up to max children take every combination of RawSizes
ShortBodies(max) == UNION {[1..n -> RawSizes] : n \in 0..max}

\* longer listings, up to MaxOver children more than the top displayed, are
\* uniform but for at most one child
LongBodies(max, top) ==
    {b \in UNION {[1..n -> LongSizes] : n \in (max + 1)..(top + MaxOver)} :
        \E k \in DOMAIN b : \A i, j \in DOMAIN b \ {k} : b[i] = b[j]}

Bodies(max, top) == ShortBodies(max) \cup LongBodies(max, top)

\* listings of equal children
UniformBodies(top) == {[k \in 1..n |-> 1] : n \in 0..(top + MaxOver)}

Line(kind, size, path) == [kind |-> kind, size |-> size, path |-> path]

\* well-formed output: one line per child, then the aggregate line of the queried path
Stdout(body, self) ==
    [k \in 1..Len(body) |-> Line("entry", body[k], Append(self, k))]
        \o <<Line("entry", Sum(body), self)>>

\* outputs du can produce for a body: well-formed, or with the last child line
\* lacking a tab, carrying a non-integer size or naming the queried path, or
\* with the aggregate line missing
Outputs(body, self) ==
    LET good == Stdout(body, self)
        n == Len(body)
    IN  {good} \cup
        (IF n = 0 THEN {}
         ELSE {[good EXCEPT ![n].kind = "notab"],
               [good EXCEPT ![n].kind = "nonint"],
               [good EXCEPT ![n].path = self],
               SubSeq(good, 1, n)})

\* what du writes for a body: any of Outputs when it exits with 0; when it
\* exits with another status (a child it could not read), the lines of the
\* body all the same
Produced(outcome, body, self) ==
    IF outcome = "ok" THEN Outputs(body, self) ELSE {Stdout(body, self)}

\* outputs none of whose lines can be used: no tab in the line, or a size that
\* int() rejects
Garbled(self) ==
    {<<Line("notab", 1, self)>>,
     <<Line("nonint", 1, Append(self, 1)), Line("notab", 1, self)>>,
     <<Line("notab", 1, Append(self, 1)), Line("nonint", 1, Append(self, 2)),
       Line("nonint", 1, self)>>}

\* every well-formed line is taken, the last one and the queried path included
ParsedAll(lines, self) ==
    LET kept == SelectSeq(lines, LAMBDA l : l.kind = "entry")
    IN  [k \in 1..Len(kept) |-> [size |-> kept[k].size, path |-> kept[k].path]]

\* a line is taken whatever its format: the int() of its size is not guarded
ParsedAnyLine(lines, self) ==
    LET kept == SelectSeq(SubSeq(lines, 1, Len(lines) - 1), LAMBDA l : l.path # self)
    IN  [k \in 1..Len(kept) |-> [size |-> kept[k].size, path |-> kept[k].path]]

\* for line in lines[:-1]: parts = line.split('\t', 1); len(parts) == 2 and
\* parts[1] != path; int(parts[0]) or skip on ValueError
Parsed(lines, self) ==
    LET kept == SelectSeq(SubSeq(lines, 1, Len(lines) - 1),
                          LAMBDA l : l.kind = "entry" /\ l.path # self)
    IN  [k \in 1..Len(kept) |-> [size |-> kept[k].size, path |-> kept[k].path]]

\* explored trees: under a short root listing the children's listings are
\* those of Bodies, under a longer one they are uniform
SubBodies(d) ==
    IF Len(d) <= MaxRoot THEN Bodies(MaxSub, TopSub) ELSE UniformBodies(TopSub)

Sizes(d) == [k \in 1..Len(d) |-> d[k].size]

\* ----- the Reconciler -----
\* the guard tests the list only
CanScaleNonEmpty(d, t) == d # <<>>

\* if container_dirs and total_bytes > 0
CanScale(d, t) == d # <<>> /\ t > 0

\* the denominator counts one block too many
ScaleFactorOff(actual, t) == RDiv(RInt(actual), RInt(t + 1))

\* scale_factor = actual_used_bytes / total_bytes
ScaleFactor(actual, t) == RDiv(RInt(actual), RInt(t))

\* floor division (//) in place of true division
ScaledGbFloor(size, factor) == Rat((size * factor[1]) \div factor[2], GB)

\* scaled_gb = (size_bytes * scale_factor) / 1000000000
ScaledGb(size, factor) == RDiv(RMul(RInt(size), factor), RInt(GB))

\* the minimum size shown at both levels of a section
Threshold(r) == IF r = "container" THEN Rat(1, 2) ELSE Rat(1, 10)

\* ----- the Filter and Ranker -----
Entry(gb, path) == [gb |-> gb, path |-> path]

\* every entry is appended, whatever its size
SignificantAll(all, d, thr) == [k \in 1..Len(d) |-> Entry(all[k], d[k].path)]

\* if scaled_gb >= 0.5: scaled_dirs.append((scaled_gb, path))
Significant(all, d, thr) ==
    LET n == Len(d)
        scaled == [k \in 1..n |-> Entry(all[k], d[k].path)]
    IN  SelectSeq(scaled, LAMBDA e : RGe(e.gb, thr))

\* an ascending sort that is then reversed: equal sizes end in reverse order
RECURSIVE InsertDescReversed(_, _)
InsertDescReversed(s, e) ==
    IF s = <<>> THEN <<e>>
    ELSE IF ~RLt(e.gb, Head(s).gb) THEN <<e>> \o s
    ELSE <<Head(s)>> \o InsertDescReversed(Tail(s), e)

\* list.sort(key=lambda x: x[0], reverse=True): descending and stable
RECURSIVE InsertDesc(_, _)
InsertDesc(s, e) ==
    IF s = <<>> THEN <<e>>
    ELSE IF RLt(Head(s).gb, e.gb) THEN <<e>> \o s
    ELSE <<Head(s)>> \o InsertDesc(Tail(s), e)

RECURSIVE SortDesc(_)
SortDesc(s) ==
    IF s = <<>> THEN <<>>
    ELSE InsertDesc(SortDesc(SubSeq(s, 1, Len(s) - 1)), s[Len(s)])

Gbs(s) == [k \in 1..Len(s) |-> s[k].gb]

\* scaled_dirs[:5] and sub_scaled[:3]
Shown == Take(scaled_dirs, TopRoot)
SubShown == Take(sub_scaled, TopSub)

\* ----- lines of the report -----
Out(kind, path, gb) == [kind |-> kind, path |-> path, gb |-> gb]
NoGb == <<0, 1>>

\* ----- the steps of main() -----
Locals ==
    /\ scale_factor = RInt(1)
    /\ dirs = <<>>
    /\ total_bytes = 0
    /\ scaled_all = <<>>
    /\ scaled_dirs = <<>>
    /\ idx = 0
    /\ sub_dirs = <<>>
    /\ sub_total = 0
    /\ sub_all = <<>>
    /\ sub_scaled = <<>>
    /\ other = <<>>
    /\ calls = <<>>
    /\ du_total_bytes = -1

ApartInit ==
    /\ gds_lines = <<>>
    /\ gds_sizes = <<>>
    /\ allocations = <<>>
    /\ memory_timeline = <<>>
    /\ original_calls = <<>>
    /\ result = 0

Init ==
    /\ pc = "df"
    /\ root = "container"
    /\ actual_used = 0
    /\ total_gb = RInt(0)
    /\ Locals
    /\ status = "none"
    /\ out = <<>>
    /\ ApartInit

ResetLocals ==
    /\ scale_factor' = RInt(1)
    /\ dirs' = <<>>
    /\ total_bytes' = 0
    /\ scaled_all' = <<>>
    /\ scaled_dirs' = <<>>
    /\ idx' = 0
    /\ sub_dirs' = <<>>
    /\ sub_total' = 0
    /\ sub_all' = <<>>
    /\ sub_scaled' = <<>>
    /\ other' = <<>>
    /\ calls' = <<>>
    /\ du_total_bytes' = -1

\* where main() continues once the breakdown of a section is over
AfterSection(r) == IF r = "container" THEN "vol_isdir" ELSE "sep"

\* the breakdown is entered although the total was not read
AfterUnreadSamples(r) == "root_du"

\* the handlers of lines 434-435 and 523-524 end the section of the root
AfterUnread(r) == AfterSection(r)

\* df -BG --output=size,used,avail,pcent /   (lines 342-353, 430-435)
QueryDf ==
    /\ pc = "df"
    /\ UNCHANGED apart
    /\ \E outcome \in {"ok", "nonzero", "short", "missing"} :
         /\ status' = outcome
         /\ \/ /\ outcome = "ok"
               /\ \E used \in UsedGb :
                    /\ actual_used' = used * GB
                    /\ total_gb' = RInt(used)
                    /\ out' = <<Out("container", <<>>, RInt(used))>>
               /\ pc' = "root_du"
            \/ /\ outcome \in {"nonzero", "short"}
               /\ out' = <<Out("unable", <<>>, NoGb)>>
               /\ pc' = AfterUnread(root)
               /\ UNCHANGED <<actual_used, total_gb>>
            \/ /\ outcome = "missing"
               /\ out' = <<>>
               /\ pc' = "crashed"
               /\ UNCHANGED <<actual_used, total_gb>>
    /\ UNCHANGED <<du_total_bytes, root, scale_factor, dirs, total_bytes, scaled_all, scaled_dirs, idx, sub_dirs,
                   sub_total, sub_all, sub_scaled, other, calls>>

\* the root enumeration (lines 356-371 and 450-465)
RootSample ==
    /\ pc = "root_du"
    /\ UNCHANGED apart
    /\ calls' = Append(calls, <<>>)
    /\ out' = <<>>
    /\ \E outcome \in {"ok", "nonzero", "garbled", "timeout", "missing"} :
         /\ status' = outcome
         /\ \/ /\ outcome \in {"ok", "nonzero"}      \* no check=True: the exit status is not looked at
               /\ \E body \in Bodies(MaxRoot, TopRoot) : \E lines \in Produced(outcome, body, <<>>) :
                    /\ dirs' = Parsed(lines, <<>>)
                    /\ total_bytes' = Sum(Sizes(Parsed(lines, <<>>)))
               /\ pc' = "root_scale"
            \/ /\ outcome = "garbled"
               /\ \E lines \in Garbled(<<>>) :
                    /\ dirs' = Parsed(lines, <<>>)
                    /\ total_bytes' = Sum(Sizes(Parsed(lines, <<>>)))
               /\ pc' = "root_scale"
            \/ /\ outcome = "timeout"
               /\ pc' = AfterSection(root)
               /\ UNCHANGED <<dirs, total_bytes>>
            \/ /\ outcome = "missing"
               /\ pc' = "crashed"
               /\ UNCHANGED <<dirs, total_bytes>>
    /\ UNCHANGED <<du_total_bytes, root, actual_used, total_gb, scale_factor, scaled_all, scaled_dirs,
                   idx, sub_dirs, sub_total, sub_all, sub_scaled, other>>

\* scaling, threshold and sort of the root level (lines 373-386 and 467-479)
RootScale ==
    /\ pc = "root_scale"
    /\ UNCHANGED apart
    /\ status' = "none"
    /\ IF CanScale(dirs, total_bytes)
       THEN IF total_bytes = 0
            THEN /\ pc' = "crashed"
                 /\ out' = <<>>
                 /\ UNCHANGED <<scale_factor, scaled_all, scaled_dirs, idx>>
            ELSE LET factor == ScaleFactor(actual_used, total_bytes)
                     all == [k \in 1..Len(dirs) |-> ScaledGb(dirs[k].size, factor)]
                     kept == SortDesc(Significant(all, dirs, Threshold(root)))
                 IN  /\ scale_factor' = factor
                     /\ scaled_all' = all
                     /\ scaled_dirs' = kept
                     /\ out' = <<Out("header", <<>>, NoGb)>>
                     /\ idx' = 1
                     /\ pc' = IF kept = <<>> THEN "other" ELSE "entry"
       ELSE /\ pc' = AfterSection(root)
            /\ out' = <<>>
            /\ UNCHANGED <<scale_factor, scaled_all, scaled_dirs, idx>>
    /\ UNCHANGED <<du_total_bytes, root, actual_used, total_gb, dirs, total_bytes, sub_dirs, sub_total,
                   sub_all, sub_scaled, other, calls>>

\* the loop runs over the enumeration in place of the ranked list
SampledPathUnranked(i) == dirs[i].path

\* du is run on a sub_path in place of path
SampledPathSub(i) == Append(Shown[i].path, 1)

\* the path du is run on for the entry at position i (line 392: path)
SampledPath(i) == Shown[i].path

\* the loop does not move on: the same entry is taken again
AdvanceRepeat == idx' = idx /\ pc' = "entry"

\* the display loop moves to the next entry of scaled_dirs[:5], or leaves the loop
Advance ==
    IF idx < Len(Shown)
    THEN idx' = idx + 1 /\ pc' = "entry"
    ELSE idx' = idx /\ pc' = "other"

\* the failure of a nested call is not caught
AfterFailureRaises == idx' = idx /\ pc' = "crashed"

\* the failed call is made again
AfterFailureRetry == idx' = idx /\ pc' = "entry"

\* without the inner try the exception reaches the handler of the section
AfterFailureLeaves == idx' = idx /\ pc' = AfterSection(root)

\* except: pass   (lines 420-421): the loop goes on with the next entry
AfterFailure == Advance

\* one entry is printed and its children are enumerated (lines 387-406, 420-421)
NestedSample ==
    /\ pc = "entry"
    /\ UNCHANGED apart
    /\ out' = <<Out("entry", Shown[idx].path, Shown[idx].gb)>>
    /\ calls' = Append(calls, SampledPath(idx))
    /\ sub_all' = <<>>
    /\ sub_scaled' = <<>>
    /\ \E outcome \in {"ok", "nonzero", "garbled", "timeout", "missing"} :
         /\ status' = outcome
         /\ \/ /\ outcome \in {"ok", "nonzero"}      \* no check=True: the exit status is not looked at
               /\ \E body \in SubBodies(dirs) : \E lines \in Produced(outcome, body, SampledPath(idx)) :
                    /\ sub_dirs' = Parsed(lines, Shown[idx].path)
                    /\ sub_total' = Sum(Sizes(Parsed(lines, Shown[idx].path)))
               /\ pc' = "sub_scale"
               /\ idx' = idx
            \/ /\ outcome = "garbled"
               /\ \E lines \in Garbled(SampledPath(idx)) :
                    /\ sub_dirs' = Parsed(lines, Shown[idx].path)
                    /\ sub_total' = Sum(Sizes(Parsed(lines, Shown[idx].path)))
               /\ pc' = "sub_scale"
               /\ idx' = idx
            \/ /\ outcome \in {"timeout", "missing"}
               /\ sub_dirs' = <<>>
               /\ sub_total' = 0
               /\ AfterFailure
    /\ UNCHANGED <<du_total_bytes, root, actual_used, total_gb, scale_factor, dirs, total_bytes, scaled_all,
                   scaled_dirs, other>>

\* the children are scaled to the raw size du reported for the parent
SubScaleRaw(size_gb, t) ==
    LET k == CHOOSE j \in 1..Len(dirs) : dirs[j].path = Shown[idx].path
    IN  RDiv(RInt(dirs[k].size), RInt(t))

\* sub_scale = (size_gb * 1000000000) / sub_total
SubScale(size_gb, t) == RDiv(RMul(size_gb, RInt(GB)), RInt(t))

\* sub_gb = (sub_bytes * sub_scale) / 1000000000
SubGb(size, scale) == RDiv(RMul(RInt(size), scale), RInt(GB))

\* scaling, threshold, sort and display of the children (lines 408-421)
NestedScale ==
    /\ pc = "sub_scale"
    /\ UNCHANGED apart
    /\ status' = "none"
    /\ IF CanScale(sub_dirs, sub_total) /\ sub_total # 0   \* a ZeroDivisionError ends in "except: pass"
       THEN LET scale == SubScale(Shown[idx].gb, sub_total)
                all == [k \in 1..Len(sub_dirs) |-> SubGb(sub_dirs[k].size, scale)]
                kept == SortDesc(Significant(all, sub_dirs, Threshold(root)))
                top == Take(kept, TopSub)
            IN  /\ sub_all' = all
                /\ sub_scaled' = kept
                /\ out' = [k \in 1..Len(top) |-> Out("sub", top[k].path, top[k].gb)]
       ELSE /\ out' = <<>>
            /\ UNCHANGED <<sub_all, sub_scaled>>
    /\ Advance
    /\ UNCHANGED <<du_total_bytes, root, actual_used, total_gb, scale_factor, dirs, total_bytes, scaled_all,
                   scaled_dirs, sub_dirs, sub_total, other, calls>>

\* shown_total = sum(x[0] for x in scaled_dirs[:5])
ShownTotal(s) == RSum(Gbs(s))

\* the remainder is taken from the whole list, not from the displayed slice
OtherOfAll(total, s) == RSub(total, RSum(Gbs(scaled_dirs)))

\* other = used - shown_total
OtherOf(total, s) == RSub(total, ShownTotal(s))

\* the remainder is compared with >=, as the entries are
OtherPrintedGe(o, thr) == RGe(o, thr)

\* if other > 0.5
OtherPrinted(o, thr) == RGt(o, thr)

\* the Total line is printed ahead of the (other) line
LevelTailTotalFirst(o, thr, total) ==
    <<Out("total", <<>>, total)>>
        \o (IF OtherPrinted(o, thr) THEN <<Out("other", <<>>, o)>> ELSE <<>>)

\* if other > 0.5: print (other); print Total   (lines 425-427 and 518-520)
LevelTail(o, thr, total) ==
    (IF OtherPrinted(o, thr) THEN <<Out("other", <<>>, o)>> ELSE <<>>)
        \o <<Out("total", <<>>, total)>>

\* the remainder and the total of the root level (lines 423-427 and 516-520)
RootOther ==
    /\ pc = "other"
    /\ UNCHANGED apart
    /\ status' = "none"
    /\ LET o == OtherOf(total_gb, Shown)
       IN  /\ other' = o
           /\ out' = LevelTail(o, Threshold(root), total_gb)
    /\ pc' = AfterSection(root)
    /\ UNCHANGED <<du_total_bytes, root, actual_used, total_gb, scale_factor, dirs, total_bytes, scaled_all,
                   scaled_dirs, idx, sub_dirs, sub_total, sub_all, sub_scaled, calls>>

\* if os.path.isdir('/ai_network_volume')   (line 438)
VolIsDir ==
    /\ pc = "vol_isdir"
    /\ UNCHANGED apart
    /\ status' = "none"
    /\ \E isdir \in BOOLEAN : pc' = IF isdir THEN "vol_usage" ELSE "sep"
    /\ root' = "volume"
    /\ actual_used' = 0
    /\ total_gb' = RInt(0)
    /\ ResetLocals
    /\ out' = <<>>

\* du -sb /ai_network_volume   (lines 439-446, 523-524)
VolUsage ==
    /\ pc = "vol_usage"
    /\ UNCHANGED apart
    /\ \E outcome \in {"ok", "nonzero", "empty", "missing"} :
         /\ status' = outcome
         /\ \/ /\ outcome = "ok"
               /\ \E b \in VolUsages :
                    /\ actual_used' = b
                    /\ total_gb' = bytes_to_gb(b)
                    /\ out' = <<Out("volume", <<>>, bytes_to_gb(b))>>
               /\ pc' = "root_du"
            \/ /\ outcome \in {"nonzero", "empty"}
               /\ out' = <<Out("unable", <<>>, NoGb)>>
               /\ pc' = AfterUnread(root)
               /\ UNCHANGED <<actual_used, total_gb>>
            \/ /\ outcome = "missing"
               /\ out' = <<>>
               /\ pc' = "crashed"
               /\ UNCHANGED <<actual_used, total_gb>>
    /\ UNCHANGED <<du_total_bytes, root, scale_factor, dirs, total_bytes, scaled_all, scaled_dirs, idx, sub_dirs,
                   sub_total, sub_all, sub_scaled, other, calls>>

\* the closing separator (lines 526-527)
Separator ==
    /\ pc = "sep"
    /\ UNCHANGED apart
    /\ status' = "none"
    /\ out' = <<Out("separator", <<>>, NoGb)>>
    /\ pc' = "argv"
    /\ actual_used' = 0
    /\ total_gb' = RInt(0)
    /\ ResetLocals
    /\ UNCHANGED root

\* if len(sys.argv) > 1 ... if os.path.isdir(target_path)   (lines 530-535, 631-633)
Argv ==
    /\ pc = "argv"
    /\ UNCHANGED apart
    /\ status' = "none"
    /\ \E arg \in {"none", "notdir", "dir_container", "dir_volume"} :
         \/ /\ arg = "none"
            /\ out' = <<>>
            /\ pc' = "done"
            /\ UNCHANGED root
         \/ /\ arg = "notdir"
            /\ out' = <<Out("error", <<>>, NoGb)>>
            /\ pc' = "done"
            /\ UNCHANGED root
         \/ /\ arg \in {"dir_container", "dir_volume"}
            /\ out' = <<Out("banner", <<>>, NoGb)>>
            /\ pc' = "dir_factor"
            /\ root' = arg
    /\ UNCHANGED <<du_total_bytes, actual_used, total_gb, scale_factor, dirs, total_bytes, scaled_all,
                   scaled_dirs, idx, sub_dirs, sub_total, sub_all, sub_scaled, other, calls>>

\* the factor falls back to 0.0
DirFactorZero(authoritative, du_total) ==
    IF du_total > 0 THEN RDiv(RInt(authoritative), RInt(du_total)) ELSE RInt(0)

\* scale_factor = authoritative / du_total_bytes if du_total_bytes > 0 else 1.0
DirFactor(authoritative, du_total) ==
    IF du_total > 0 THEN RDiv(RInt(authoritative), RInt(du_total)) ELSE RInt(1)

\* the scale factor of the filesystem the directory is on (lines 537-575); any
\* failure of its two queries leaves the factor at 1.0
DirScale ==
    /\ pc = "dir_factor"
    /\ UNCHANGED apart
    /\ \E outcome \in {"ok", "failed"} :
         /\ status' = outcome
         /\ \/ /\ outcome = "ok"
               /\ \E du_total \in DuTotals :
                    /\ du_total_bytes' = du_total
                    /\ \/ /\ root = "dir_volume"
                          /\ \E b \in VolUsages : scale_factor' = DirFactor(b, du_total)
                       \/ /\ root = "dir_container"
                          /\ \E used \in UsedGb : scale_factor' = DirFactor(used * GB, du_total)
            \/ /\ outcome = "failed"
               /\ scale_factor' = RInt(1)
               /\ du_total_bytes' = -1
    /\ out' = <<>>
    /\ pc' = "dir_total"
    /\ UNCHANGED <<root, actual_used, total_gb, dirs, total_bytes, scaled_all,
                   scaled_dirs, idx, sub_dirs, sub_total, sub_all, sub_scaled, other, calls>>

\* du --block-size=1 -s target_path   (lines 577-587)
DirTotal ==
    /\ pc = "dir_total"
    /\ UNCHANGED apart
    /\ \E outcome \in {"ok", "failed"} :
         /\ status' = outcome
         /\ \/ /\ outcome = "ok"
               /\ \E t \in DirTotals :
                    /\ total_bytes' = t
                    /\ total_gb' = ScaledGb(t, scale_factor)
                    /\ out' = <<Out("estimated", <<>>, ScaledGb(t, scale_factor))>>
            \/ /\ outcome = "failed"
               /\ total_bytes' = 0
               /\ total_gb' = RInt(0)
               /\ out' = <<>>
    /\ pc' = "dir_du"
    /\ UNCHANGED <<du_total_bytes, root, actual_used, scale_factor, dirs, scaled_all,
                   scaled_dirs, idx, sub_dirs, sub_total, sub_all, sub_scaled, other, calls>>

\* if size_gb >= 0.01
DirThreshold == Rat(1, 100)

\* the enumeration of the directory, scaled and filtered line by line (lines 589-611, 626-627)
DirSample ==
    /\ pc = "dir_du"
    /\ UNCHANGED apart
    /\ calls' = Append(calls, <<>>)
    /\ \E outcome \in {"ok", "failed"} :
         /\ status' = outcome
         /\ \/ /\ outcome = "ok"
               /\ \E body \in ShortBodies(MaxDir) : \E lines \in Outputs(body, <<>>) :
                    LET d == Parsed(lines, <<>>)
                        all == [k \in 1..Len(d) |-> ScaledGb(d[k].size, scale_factor)]
                    IN  /\ dirs' = d
                        /\ scaled_all' = all
                        /\ scaled_dirs' = Significant(all, d, DirThreshold)
               /\ out' = <<>>
               /\ pc' = "dir_show"
            \/ /\ outcome = "failed"
               /\ out' = <<Out("error", <<>>, NoGb), Out("separator", <<>>, NoGb)>>
               /\ pc' = "done"
               /\ UNCHANGED <<dirs, scaled_all, scaled_dirs>>
    /\ UNCHANGED <<du_total_bytes, root, actual_used, total_gb, scale_factor, total_bytes,
                   idx, sub_dirs, sub_total, sub_all, sub_scaled, other>>

\* subdirs[:20]
DirShown == Take(scaled_dirs, TopDir)

\* the sorted listing, the remainder and the total of the directory (lines 613-630)
DirShow ==
    /\ pc = "dir_show"
    /\ UNCHANGED apart
    /\ status' = "none"
    /\ IF scaled_dirs # <<>>
       THEN LET sorted == SortDesc(scaled_dirs)
                top == Take(sorted, TopDir)
                o == OtherOf(total_gb, top)
            IN  /\ scaled_dirs' = sorted
                /\ other' = IF Len(sorted) > TopDir THEN o ELSE <<>>
                /\ out' = [k \in 1..Len(top) |-> Out("entry", top[k].path, top[k].gb)]
                          \o (IF Len(sorted) > TopDir /\ OtherPrinted(o, DirThreshold)
                              THEN <<Out("other", <<>>, o)>> ELSE <<>>)
                          \o <<Out("total", <<>>, total_gb), Out("separator", <<>>, NoGb)>>
       ELSE /\ out' = <<Out("separator", <<>>, NoGb)>>
            /\ UNCHANGED <<scaled_dirs, other>>
    /\ pc' = "done"
    /\ UNCHANGED <<du_total_bytes, root, actual_used, total_gb, scale_factor, dirs, total_bytes, scaled_all,
                   idx, sub_dirs, sub_total, sub_all, sub_scaled, calls>>

Next ==
    \/ QueryDf
    \/ RootSample
    \/ RootScale
    \/ NestedSample
    \/ NestedScale
    \/ RootOther
    \/ VolIsDir
    \/ VolUsage
    \/ Separator
    \/ Argv
    \/ DirScale
    \/ DirTotal
    \/ DirSample
    \/ DirShow

Spec == Init /\ [][Next]_vars

(***************************************************************************)
(* get_directory_sizes(path), called on its own                            *)
(***************************************************************************)
\* sizes[:5]
TopGds == 5

\* what du --block-size=1G writes for a body: its lines and the aggregate
\* line, with at most one child line lacking a tab or carrying a size that is
\* no integer, or cut short of the aggregate line
GdsOutputs(body) ==
    LET good == Stdout(body, <<>>)
        n == Len(body)
    IN  {good} \cup {[good EXCEPT ![k].kind = "nonint"] : k \in 1..n}
               \cup {[good EXCEPT ![k].kind = "notab"] : k \in 1..n}
               \cup (IF n = 0 THEN {} ELSE {SubSeq(good, 1, n)})

\* the last line is read like the others
GdsKeptAll(lines) == SelectSeq(lines, LAMBDA l : l.kind = "entry" /\ l.size >= 1)

\* for line in lines[:-1]: two parts, int(size_gb_str), size_gb >= 1   (lines 34-42)
GdsKept(lines) ==
    SelectSeq(SubSeq(lines, 1, Len(lines) - 1), LAMBDA l : l.kind = "entry" /\ l.size >= 1)

\* sizes.sort(key=lambda x: x[0], reverse=True); sizes[:5]   (lines 44-45)
get_directory_sizes(lines) ==
    LET kept == GdsKept(lines)
        top == Take(SortDesc([k \in 1..Len(kept) |-> Entry(RInt(kept[k].size), kept[k].path)]),
                    TopGds)
    IN  [k \in 1..Len(top) |-> [size |-> top[k].gb[1], path |-> top[k].path]]

\* the variables of main() other than pc and status
main_state == <<root, actual_used, total_gb, scale_factor, dirs, total_bytes, scaled_all,
                scaled_dirs, idx, sub_dirs, sub_total, sub_all, sub_scaled, other, calls,
                du_total_bytes, out>>

MainIdle ==
    /\ root = "container"
    /\ actual_used = 0
    /\ total_gb = RInt(0)
    /\ Locals
    /\ status = "none"
    /\ out = <<>>

GdsInit ==
    /\ pc = "gds_call"
    /\ MainIdle
    /\ ApartInit

\* one call of get_directory_sizes (lines 29-47): check=True and timeout=30
\* turn a non-zero exit and a timeout into the empty list; a du that cannot
\* be started raises FileNotFoundError, which is not caught
GdsCall ==
    /\ pc = "gds_call"
    /\ \E outcome \in {"ok", "nonzero", "timeout", "missing"} :
         /\ status' = outcome
         /\ \/ /\ outcome = "ok"
               /\ \E body \in Bodies(MaxRoot, TopGds) : \E lines \in GdsOutputs(body) :
                    /\ gds_lines' = lines
                    /\ gds_sizes' = get_directory_sizes(lines)
               /\ pc' = "gds_returned"
            \/ /\ outcome = "nonzero"
               /\ \E body \in Bodies(MaxRoot, TopGds) : gds_lines' = Stdout(body, <<>>)
               /\ gds_sizes' = <<>>
               /\ pc' = "gds_returned"
            \/ /\ outcome = "timeout"
               /\ gds_lines' = <<>>
               /\ gds_sizes' = <<>>
               /\ pc' = "gds_returned"
            \/ /\ outcome = "missing"
               /\ pc' = "crashed"
               /\ UNCHANGED <<gds_lines, gds_sizes>>
    /\ UNCHANGED <<main_state, allocations, memory_timeline, original_calls, result>>

\* the caller goes on and may call again; the locals of the call are gone
GdsReturn ==
    /\ pc = "gds_returned"
    /\ pc' = "gds_call"
    /\ status' = "none"
    /\ gds_lines' = <<>>
    /\ gds_sizes' = <<>>
    /\ UNCHANGED <<main_state, allocations, memory_timeline, original_calls, result>>

GdsNext == GdsCall \/ GdsReturn

GdsSpec == GdsInit /\ [][GdsNext]_vars

(***************************************************************************)
(* profile_tinygrad_memory: patched_alloc and track_memory, called in any  *)
(* order                                                                   *)
(***************************************************************************)
\* sizes are counted in blocks of 256 MiB: 1024**3 bytes are GiB blocks
GiB == 4

\* if total / 1024**3 > 15
AlertGb == 15

\* a['size'] for a in allocations if a['freed'] is None
ActiveSizes(log) ==
    LET active == SelectSeq(log, LAMBDA a : a.freed = "None")
    IN  [k \in 1..Len(active) |-> active[k].size]

\* the record is appended as freed already
AllocRecordFreed(size, res) == [size |-> size, freed |-> "freed", ptr |-> res]

\* {'size': size, 'freed': None, 'ptr': id(result) if result else None}; the
\* ptr of a falsy result is written 0
AllocRecord(size, res) == [size |-> size, freed |-> "None", ptr |-> res]

\* total_allocated: the sum of the active sizes if memory_timeline: else 0   (lines 21-24)
TrackedTotal(timeline, log) == IF timeline # <<>> THEN Sum(ActiveSizes(log)) ELSE 0

\* result = original_cuda_alloc(self, size, options)   (line 43): the call
\* made, with what it returned (-1: it raised)
OriginalCall(size, options, res) == [size |-> size, options |-> options, returned |-> res]

\* the snapshot appended by track_memory (lines 26-31)
Snapshot(label, total, log) ==
    [label |-> label, allocated_gb |-> Rat(total, GiB), num_tensors |-> Len(ActiveSizes(log))]

ProfInit ==
    /\ pc = "profiling"
    /\ MainIdle
    /\ ApartInit

\* patched_alloc(self, size, options)   (lines 41-56): original_cuda_alloc
\* returns a buffer, returns nothing, or raises; the id of a buffer is taken
\* to be its rank among the calls
PatchedAlloc ==
    /\ pc = "profiling"
    /\ Len(allocations) < MaxAllocs
    /\ \E size \in AllocSizes : \E options \in {"None", "opts"} :
       \E outcome \in {"buffer", "nothing", "raises"} :
         /\ status' = outcome
         /\ \/ /\ outcome \in {"buffer", "nothing"}
               /\ LET res == IF outcome = "buffer" THEN Len(allocations) + 1 ELSE 0
                      log == Append(allocations, AllocRecord(size, res))
                  IN  /\ original_calls' = <<OriginalCall(size, options, res)>>
                      /\ allocations' = log
                      /\ result' = [size |-> size, options |-> options, value |-> res]
                      /\ out' = IF RGt(Rat(Sum(ActiveSizes(log)), GiB), RInt(AlertGb))
                                THEN <<Out("warning", <<>>, Rat(Sum(ActiveSizes(log)), GiB))>>
                                ELSE <<>>
            \/ /\ outcome = "raises"
               /\ original_calls' = <<OriginalCall(size, options, -1)>>
               /\ result' = [size |-> size, options |-> options, value |-> -1]
               /\ out' = <<>>
               /\ UNCHANGED allocations
    /\ pc' = pc
    /\ UNCHANGED <<root, actual_used, total_gb, scale_factor, dirs, total_bytes, scaled_all,
                   scaled_dirs, idx, sub_dirs, sub_total, sub_all, sub_scaled, other, calls,
                   du_total_bytes, gds_lines, gds_sizes, memory_timeline>>

\* track_memory(label)   (lines 19-39)
TrackMemory ==
    /\ pc = "profiling"
    /\ Len(memory_timeline) < MaxSnaps
    /\ LET total == TrackedTotal(memory_timeline, allocations)
       IN  /\ memory_timeline' =
                  Append(memory_timeline, Snapshot("checkpoint", total, allocations))
           /\ out' = <<Out("memory", <<>>, Rat(total, GiB))>>
    /\ status' = "none"
    /\ original_calls' = <<>>
    /\ result' = 0
    /\ pc' = pc
    /\ UNCHANGED <<root, actual_used, total_gb, scale_factor, dirs, total_bytes, scaled_all,
                   scaled_dirs, idx, sub_dirs, sub_total, sub_all, sub_scaled, other, calls,
                   du_total_bytes, gds_lines, gds_sizes, allocations>>

ProfNext == PatchedAlloc \/ TrackMemory

ProfSpec == ProfInit /\ [][ProfNext]_vars

(***************************************************************************)
(* Properties                                                              *)
(***************************************************************************)
InSection == root \in {"container", "volume"}

\* the AuthoritativeTotal of the root level, in GB
AuthoritativeGb == Rat(actual_used, GB)

\* the root level has been scaled: its raw sizes are sampled and RootScale has acted
RootScaled == InSection /\ pc # "root_scale" /\ Sum(Sizes(dirs)) > 0

\* the children of the sampled entry have been scaled
NestedScaled == InSection /\ pc # "sub_scale" /\ Sum(Sizes(sub_dirs)) > 0

\* the remainder and the Total of a root level have just been printed
RootDone == InSection /\ other # <<>>

\* the scaled size of the entry whose children were sampled last
ParentGb ==
    LET k == CHOOSE j \in 1..Len(Shown) : Shown[j].path = calls[Len(calls)]
    IN  Shown[k].gb

OfKind(kinds) == SelectSeq(out, LAMBDA l : l.kind \in kinds)
OtherLines == OfKind({"other"})
TotalLines == OfKind({"total"})
LevelThreshold == IF InSection THEN Threshold(root) ELSE DirThreshold
LineNo(p) == p[Len(p)]

\* C1: at each root level (container, network volume) whose sampled raw sizes
\* sum to more than 0, the scaled sizes of all siblings, before any
\* filtering, add up to the level's AuthoritativeTotal.
C1_RootSumIsAuthoritative ==
    RootScaled => /\ Len(scaled_all) = Len(dirs)
                  /\ RSum(scaled_all) = AuthoritativeGb

C1_Witness ==
    /\ root = "volume" /\ pc = "other"
    /\ Len(dirs) >= 3
    /\ actual_used # total_bytes
    /\ scaled_dirs # <<>> /\ Len(scaled_dirs) < Len(dirs)

C3_ChildrenSumIsParent ==
    NestedScaled => /\ Len(sub_all) = Len(sub_dirs)
                    /\ RSum(sub_all) = ParentGb

C3_Witness ==
    /\ InSection /\ pc = "other"
    /\ Len(sub_dirs) >= 3
    /\ scale_factor # RInt(1)
    /\ sub_scaled # <<>> /\ Len(sub_scaled) < Len(sub_dirs)

\* C4: at every level no kept or printed entry has a scaled size below the
\* level's threshold.
C4_NoEntryBelowThreshold ==
    /\ \A k \in 1..Len(scaled_dirs) : RGe(scaled_dirs[k].gb, LevelThreshold)
    /\ \A k \in 1..Len(sub_scaled) : RGe(sub_scaled[k].gb, LevelThreshold)
    /\ \A k \in 1..Len(out) :
         out[k].kind \in {"entry", "sub"} => RGe(out[k].gb, LevelThreshold)

C4_Witness ==
    /\ InSection /\ pc = "other"
    /\ scaled_dirs # <<>> /\ Len(scaled_dirs) < Len(dirs)
    /\ sub_scaled # <<>> /\ Len(sub_scaled) < Len(sub_dirs)
    /\ OfKind({"sub"}) # <<>>

\* C5 as stated: the (other) line is omitted when the remainder is below the
\* threshold and shown when it is greater than or equal to it.
C5_OtherShownFromThreshold ==
    RootDone => /\ RLt(other, Threshold(root)) => OtherLines = <<>>
                /\ RGe(other, Threshold(root)) => OtherLines # <<>>

\* C5 amended: the (other) line of a root level is shown exactly when the
\* remainder is strictly greater than the threshold.
C5_OtherShownAboveThreshold ==
    RootDone => (OtherLines # <<>> <=> RGt(other, Threshold(root)))

C5_Witness ==
    /\ RootDone
    /\ other = Threshold(root)
    /\ OtherLines = <<>>

\* C6: at every level the entries are in descending order of scaled size and
\* entries of equal scaled size keep the order of enumeration.
Ranked(s) ==
    \A i, j \in 1..Len(s) :
        i < j => /\ RGe(s[i].gb, s[j].gb)
                 /\ s[i].gb = s[j].gb => LineNo(s[i].path) < LineNo(s[j].path)

C6_DescendingStable ==
    /\ pc # "dir_show" => Ranked(scaled_dirs)
    /\ Ranked(sub_scaled)
    /\ Ranked(OfKind({"entry"}))
    /\ Ranked(OfKind({"sub"}))

C6_Witness ==
    /\ InSection
    /\ Len(OfKind({"sub"})) = 3
    /\ RGt(sub_scaled[1].gb, sub_scaled[2].gb)
    /\ sub_scaled[2].gb = sub_scaled[3].gb
    /\ LineNo(sub_scaled[1].path) > LineNo(sub_scaled[2].path)

\* C7: the display loop of a root level never goes past topN = 5 entries and
\* at most 3 children are printed under an entry.
C7_AtMostTopN ==
    /\ InSection => idx <= TopRoot
    /\ Len(OfKind({"sub"})) <= TopSub
    /\ Len(OfKind({"entry"})) <= (IF InSection THEN 1 ELSE TopDir)

C7_Witness ==
    /\ InSection /\ pc = "other"
    /\ Len(scaled_dirs) > TopRoot /\ idx = TopRoot
    /\ Len(sub_scaled) > TopSub /\ Len(OfKind({"sub"})) = TopSub

\* C8: du is never run on a path MaxDepth levels below the root: the
\* children shown under an entry are not sampled.
C8_NoSamplingBelowMaxDepth ==
    /\ \A c \in 1..Len(calls) : Len(calls[c]) < MaxDepth
    /\ \A c \in 1..Len(calls) : \A k \in 1..Len(sub_scaled) :
         calls[c] # sub_scaled[k].path

C8_Witness ==
    /\ InSection /\ pc = "other"
    /\ Len(Shown) >= 2
    /\ Len(calls) = 1 + Len(Shown)
    /\ OfKind({"sub"}) # <<>>

\* C9 as stated: when the raw sizes sum to 0 or the AuthoritativeTotal is 0,
\* every entry gets scaled size 0, the level is reported as unestimatable
\* and the report goes on.
ZeroSum == InSection /\ pc # "root_scale" /\ dirs # <<>> /\ total_bytes = 0
ZeroTotal == RootScaled /\ actual_used = 0

C9_ZeroScaledAndReported ==
    ZeroSum => /\ scaled_all = [k \in 1..Len(dirs) |-> RInt(0)]
               /\ OfKind({"unestimatable"}) # <<>>
               /\ pc # "crashed"

\* C9 amended: a root level whose raw sizes sum to 0 is skipped (nothing is
\* scaled, kept or printed and the next section follows); with an
\* AuthoritativeTotal of 0 every scaled size is 0 and no entry is kept;
\* children whose raw sizes sum to 0 are not scaled or printed; no division
\* error ends the report.
C9_DegenerateSkipped ==
    /\ ZeroSum => /\ pc = AfterSection(root)
                  /\ scaled_all = <<>> /\ scaled_dirs = <<>> /\ other = <<>>
                  /\ out = <<>>
    /\ ZeroTotal => /\ scaled_all = [k \in 1..Len(dirs) |-> RInt(0)]
                    /\ scaled_dirs = <<>>
                    /\ pc \in {"other", AfterSection(root)}
    /\ (InSection /\ pc # "sub_scale" /\ sub_dirs # <<>> /\ sub_total = 0)
          => /\ sub_all = <<>> /\ sub_scaled = <<>>
             /\ OfKind({"sub"}) = <<>>
             /\ pc \in {"entry", "other", AfterSection(root)}

C9_Witness ==
    /\ ZeroSum
    /\ root = "volume" /\ pc = "sep"
    /\ Len(dirs) >= 2 /\ actual_used > 0

\* C10: scaling is proportional: scaled x sum of raw sizes = raw x
\* AuthoritativeTotal for every entry, so two siblings' scaled sizes are in
\* the ratio of their raw sizes; raw [40, 30, 20, 10] scaled to 150 gives
\* [60, 45, 30, 15].
Proportional(all, d, total) ==
    /\ \A k \in 1..Len(d) :
         RMul(all[k], RInt(Sum(Sizes(d)))) = RMul(RInt(d[k].size), total)
    /\ \A i, j \in 1..Len(d) :
         RMul(all[i], RInt(d[j].size)) = RMul(all[j], RInt(d[i].size))

C10_Proportional ==
    /\ RootScaled => Proportional(scaled_all, dirs, AuthoritativeGb)
    /\ NestedScaled => Proportional(sub_all, sub_dirs, ParentGb)
    /\ [k \in 1..4 |-> ScaledGb(<<40, 30, 20, 10>>[k], ScaleFactor(150 * GB, 100))]
         = <<RInt(60), RInt(45), RInt(30), RInt(15)>>

C10_Witness ==
    /\ RootScaled /\ pc = "entry"
    /\ \E i, j \in 1..Len(dirs) : dirs[i].size = 2 /\ dirs[j].size = 1
    /\ scale_factor \notin {RInt(0), RInt(1)}
    /\ scale_factor[2] # 1

\* positions of the enumeration whose scaled size reaches the threshold
SignificantAt == {k \in 1..Len(scaled_all) : RGe(scaled_all[k], Threshold(root))}
ShownPaths == {Shown[k].path : k \in 1..Len(Shown)}

\* C11: at a root level the shown entries are the first topN, in descending
\* order, of the entries at or above the threshold: every shown entry is
\* significant, no significant entry left out is larger than a shown one,
\* and other is the AuthoritativeTotal minus the sum of the shown entries.
C11_ShownAndOther ==
    RootDone =>
        /\ Len(Shown) = (IF Cardinality(SignificantAt) < TopRoot
                         THEN Cardinality(SignificantAt) ELSE TopRoot)
        /\ \A j \in 1..Len(Shown) :
             \E k \in SignificantAt : dirs[k].path = Shown[j].path /\ scaled_all[k] = Shown[j].gb
        /\ \A j \in 1..(Len(Shown) - 1) : RGe(Shown[j].gb, Shown[j + 1].gb)
        /\ \A k \in SignificantAt :
             dirs[k].path \notin ShownPaths =>
                 \A j \in 1..Len(Shown) : RGe(Shown[j].gb, scaled_all[k])
        /\ other = RSub(AuthoritativeGb, RSum(Gbs(Shown)))

\* the entry set returned by the last Sampler call of the section
LastEntries == IF Len(calls) = 1 THEN dirs ELSE sub_dirs

\* a Sampler call of a storage section was made by the last step
JustSampled == InSection /\ calls # <<>> /\ status # "none"

\* C12 as stated: a Sampler call that timed out, exited with a non-zero
\* status or produced unparsable output returns no entry, and the caller
\* goes on.
C12_FailedCallIsEmpty ==
    (JustSampled /\ status \in {"timeout", "nonzero", "garbled"}) =>
        LastEntries = <<>> /\ pc # "crashed"

\* C12 amended: a Sampler call that timed out or whose output holds no usable
\* line returns no entry and the caller goes on; a level without entries has
\* nothing scaled, kept or printed, and an empty root level is not recursed
\* into.
C12_TimeoutOrGarbledIsEmpty ==
    /\ (JustSampled /\ status \in {"timeout", "garbled"}) =>
           LastEntries = <<>> /\ pc # "crashed"
    /\ (InSection /\ dirs = <<>>) =>
           /\ scaled_all = <<>> /\ scaled_dirs = <<>>
           /\ Len(calls) <= 1
           /\ OfKind({"header", "entry", "sub", "other", "total"}) = <<>>
    /\ (InSection /\ sub_dirs = <<>>) =>
           /\ sub_all = <<>> /\ sub_scaled = <<>>
           /\ OfKind({"sub"}) = <<>>

C12_Witness ==
    /\ JustSampled /\ status = "garbled"
    /\ pc = "sub_scale" /\ idx >= 2

\* the ways a total query or a Sampler call of the storage report can fail
FailureKinds == {"missing", "timeout", "garbled", "nonzero", "short", "empty"}

\* C13: whichever failure occurs at a total query or a Sampler call of the
\* storage report (tool missing, timeout, malformed output; a zero sum shows
\* as a level that is skipped), it is absorbed where it occurs: no exception
\* leaves main().
C13_NoFailureEscapes ==
    (status \in FailureKinds \/ ZeroSum) => pc # "crashed"

\* C14: a timeout or a failure to run du on the children of one shown entry
\* ends that entry's branch only: the entry's line is printed with its scaled
\* size, the ranked list and the Total are untouched, the loop moves on to
\* the next sibling (or to the remainder after the last one), and the
\* remainder and the Total are computed from the ranked list and the
\* level's total alone.
C14_FailureEndsOnlyThatBranch ==
    [][/\ (pc = "entry" /\ status' \in {"timeout", "missing"}) =>
              /\ out' = <<Out("entry", Shown[idx].path, Shown[idx].gb)>>
              /\ sub_dirs' = <<>> /\ sub_scaled' = <<>>
              /\ IF idx < Len(Shown)
                 THEN pc' = "entry" /\ idx' = idx + 1
                 ELSE pc' = "other" /\ idx' = idx
       /\ pc \in {"entry", "sub_scale"} =>
              UNCHANGED <<root, actual_used, total_gb, scale_factor, dirs, scaled_all, scaled_dirs>>
       /\ pc = "other" =>
              /\ other' = RSub(total_gb, RSum(Gbs(Take(scaled_dirs, TopRoot))))
              /\ OfKind({"total"})' = <<Out("total", <<>>, total_gb)>>
      ]_vars

C14_Witness ==
    /\ InSection /\ status \in {"timeout", "missing"}
    /\ pc = "entry" /\ idx >= 2
    /\ Len(calls) = idx

\* the paths of the shown entries at positions 1..n, in display order
ShownPathsTo(n) == [k \in 1..n |-> Shown[k].path]

\* number of entries of the display loop whose children have been enumerated
SampledEntries ==
    IF pc = "entry" THEN idx - 1 ELSE IF pc = "sub_scale" THEN idx ELSE Len(Shown)

\* C15: once the root level is ranked, du has been run once on the root and
\* then once on the path of each shown entry the loop has reached, in display
\* order, and on nothing else; when the loop is over every shown entry has
\* been sampled exactly once, and the children were scaled to the entry's own
\* scaled size.
C15_OneCallPerShownEntry ==
    ((InSection /\ pc \in {"entry", "sub_scale", "other"}) \/ RootDone) =>
        /\ calls = <<<<>>>> \o ShownPathsTo(SampledEntries)
        /\ \A i, j \in 1..Len(calls) : calls[i] = calls[j] => i = j
        /\ sub_all # <<>> => RSum(sub_all) = ParentGb

C15_Witness ==
    /\ RootDone
    /\ Len(Shown) >= 2 /\ Len(Shown) < Len(dirs)
    /\ Shown[1].path # <<1>>
    /\ Len(calls) = 1 + Len(Shown)

\* outcomes of a du call after which its output is parsed
Returned == {"ok", "nonzero", "garbled"}

\* C16 as stated: every sampled node goes on from Sampling to Reconciling and
\* Filtering, none of them skipped: after a Sampler call that did not abort
\* the report the scaling step is entered, and a node that has entries gets
\* every one of them scaled.
C16_SampledNodeIsReconciled ==
    [][/\ (pc = "root_du" /\ pc' # "crashed") => pc' = "root_scale"
       /\ (pc = "root_scale" /\ dirs # <<>>) => Len(scaled_all') = Len(dirs)
       /\ pc = "entry" => pc' = "sub_scale"
       /\ (pc = "sub_scale" /\ sub_dirs # <<>>) => Len(sub_all') = Len(sub_dirs)
      ]_vars

\* C16 amended: a node is sampled once; it is reconciled and filtered, in
\* that order and once, exactly when its Sampler call returned entries whose
\* raw sizes sum to more than 0, and is terminal straight after Sampling
\* otherwise; after Filtering the root recurses into its shown entries, one
\* after the other, and a node at depth 1 is terminal.
C16_PhasesInOrder ==
    [][/\ pc = "root_du" =>
              /\ scaled_all' = <<>> /\ scaled_dirs' = <<>>
              /\ IF status' \in Returned
                 THEN pc' = "root_scale"
                 ELSE pc' \in {AfterSection(root), "crashed"}
       /\ pc = "root_scale" =>
              IF dirs # <<>> /\ total_bytes > 0
              THEN /\ Len(scaled_all') = Len(dirs)
                   /\ \A k \in 1..Len(scaled_dirs') : RGe(scaled_dirs'[k].gb, Threshold(root))
                   /\ pc' = IF scaled_dirs' = <<>> THEN "other" ELSE "entry"
              ELSE /\ scaled_all' = <<>> /\ scaled_dirs' = <<>>
                   /\ pc' = AfterSection(root)
       /\ pc = "entry" =>
              /\ sub_all' = <<>> /\ sub_scaled' = <<>>
              /\ IF status' \in Returned
                 THEN pc' = "sub_scale" /\ idx' = idx
                 ELSE pc' \in {"entry", "other"}
       /\ pc = "sub_scale" =>
              /\ pc' \in {"entry", "other"}
              /\ IF sub_dirs # <<>> /\ sub_total > 0
                 THEN /\ Len(sub_all') = Len(sub_dirs)
                      /\ \A k \in 1..Len(sub_scaled') : RGe(sub_scaled'[k].gb, Threshold(root))
                 ELSE sub_all' = <<>> /\ sub_scaled' = <<>>
       /\ (pc \in {"entry", "sub_scale"} /\ pc' = "entry") => idx' = idx + 1
       /\ (pc' = "root_du" /\ pc # "root_du") => pc \in {"df", "vol_usage"} /\ calls' = <<>>
       /\ pc' = "root_scale" => pc = "root_du"
       /\ pc' = "sub_scale" => pc = "entry"
      ]_vars

C16_Witness ==
    /\ InSection /\ pc = "other" /\ status = "none"
    /\ idx >= 2
    /\ sub_dirs # <<>> /\ sub_total = 0

\* C17: in a storage section du is never run twice on the same path, so a
\* node whose call failed or timed out is not sampled again, and the calls
\* made for one root number at most 1 + topN; a step makes at most one call.
C17_NoRetryBoundedCalls ==
    [][InSection' =>
           /\ \A i, j \in 1..Len(calls') : calls'[i] = calls'[j] => i = j
           /\ Len(calls') <= 1 + TopRoot
           /\ (calls' = calls \/ calls' = <<>> \/ \E p \in {<<>>} \cup ShownPaths : calls' = Append(calls, p))
      ]_vars

C17_Witness ==
    /\ InSection /\ pc = "other"
    /\ status \in {"timeout", "missing"}
    /\ Len(calls) = 1 + TopRoot

\* C18 as stated: every level, the nested one included, ends with a Total
\* line: the lines of the children of an entry are followed by one.
C18_NestedLevelHasTotal ==
    [][(pc = "sub_scale" /\ OfKind({"sub"})' # <<>>) => OfKind({"total"})' # <<>>]_vars

\* C18 amended: a root level prints its header, then for each shown entry, in
\* rank order, the entry's line followed at once by the lines of its ranked
\* children, then the (other) line if any and last one Total line carrying
\* the level's total; the nested level prints its ranked children only,
\* without (other) or Total line.
C18_LevelLayout ==
    [][/\ (pc = "root_scale" /\ pc' \in {"entry", "other"}) =>
              out' = <<Out("header", <<>>, NoGb)>>
       /\ pc = "entry" =>
              out' = <<Out("entry", Shown[idx].path, Shown[idx].gb)>>
       /\ pc = "sub_scale" =>
              /\ out' = [k \in 1..Len(SubShown') |->
                            Out("sub", SubShown'[k].path, SubShown'[k].gb)]
              /\ \A k \in 1..Len(out') :
                    SubSeq(out'[k].path, 1, Len(out'[k].path) - 1) = Shown[idx].path
              /\ \A k \in 1..(Len(out') - 1) : RGe(out'[k].gb, out'[k + 1].gb)
       /\ pc = "other" =>
              /\ out' = OtherLines' \o TotalLines'
              /\ Len(OtherLines') <= 1
              /\ TotalLines' = <<Out("total", <<>>, total_gb)>>
       /\ (InSection /\ pc \notin {"root_scale", "entry", "sub_scale", "other"}) =>
              OfKind({"header", "entry", "sub", "other", "total"})' = <<>>
      ]_vars

C18_Witness ==
    /\ InSection /\ pc = "entry" /\ idx >= 2
    /\ Len(OfKind({"sub"})) >= 2
    /\ out[1].gb # out[2].gb

\* C19: no entry taken from a du call names the queried path: the entries of
\* a root call are its children, those of a nested call the children of the
\* sampled entry, so the aggregate line of the queried path is in no raw
\* total, in no scaled list and on no printed entry line.
C19_NoEntryForQueriedPath ==
    /\ \A k \in 1..Len(dirs) : dirs[k].path # <<>> /\ Len(dirs[k].path) = 1
    /\ \A k \in 1..Len(sub_dirs) :
          /\ sub_dirs[k].path # calls[Len(calls)]
          /\ SubSeq(sub_dirs[k].path, 1, 1) = calls[Len(calls)]
    /\ InSection => total_bytes = Sum(Sizes(dirs))
    /\ sub_total = Sum(Sizes(sub_dirs))
    /\ Len(scaled_all) <= Len(dirs) /\ Len(sub_all) <= Len(sub_dirs)
    /\ \A k \in 1..Len(scaled_dirs) : scaled_dirs[k].path # <<>>
    /\ \A k \in 1..Len(sub_scaled) : sub_scaled[k].path # calls[Len(calls)]
    /\ \A k \in 1..Len(out) : out[k].kind \in {"entry", "sub"} => out[k].path # <<>>

C19_Witness ==
    /\ InSection /\ status = "ok"
    /\ pc = "sub_scale"
    /\ Len(sub_dirs) >= 2 /\ sub_total > 0

InDirectory == root \in {"dir_container", "dir_volume"}

\* C20: when the sum the scale factor is divided by is 0, nothing is divided:
\* in the breakdown of a directory the factor is 1 and every entry, and the
\* estimated total, keeps its raw size; at a level of a storage section the
\* scaling is skipped, so that no entry is given any other size, and main()
\* goes on.
C20_ZeroDenominatorIsIdentity ==
    /\ (InDirectory /\ du_total_bytes = 0) =>
           /\ scale_factor = RInt(1)
           /\ Len(scaled_all) = Len(dirs)
           /\ \A k \in 1..Len(dirs) : scaled_all[k] = Rat(dirs[k].size, GB)
           /\ total_gb = Rat(total_bytes, GB)
           /\ pc # "crashed"
    /\ ZeroSum =>
           /\ scale_factor = RInt(1)
           /\ scaled_all = <<>> /\ scaled_dirs = <<>>
           /\ pc # "crashed"
    /\ (InSection /\ pc # "sub_scale" /\ sub_dirs # <<>> /\ sub_total = 0) =>
           sub_all = <<>> /\ sub_scaled = <<>>

C20_Witness ==
    /\ InDirectory /\ du_total_bytes = 0
    /\ pc = "done" /\ status = "none"
    /\ total_bytes > 0
    /\ Len(scaled_dirs) >= 2

\* C21: when the total of a root level cannot be read (df or du -sb fails, or
\* its output cannot be used), that root is left at once: du is not run for
\* it, nothing is scaled and nothing is divided; du is run on a root only
\* right after its total was read.
C21_UnreadTotalSkipsRoot ==
    [][/\ (pc \in {"df", "vol_usage"} /\ status' # "ok") =>
              /\ pc' \notin {"root_du", "root_scale", "entry", "sub_scale", "other"}
              /\ calls' = <<>>
              /\ scaled_all' = <<>> /\ scaled_dirs' = <<>>
              /\ scale_factor' = RInt(1)
              /\ OfKind({"header", "entry", "sub", "other", "total"})' = <<>>
       /\ pc' = "root_du" => (pc \in {"df", "vol_usage"} /\ status' = "ok")
       /\ (InSection' /\ calls' # calls /\ calls' # <<>>) => pc \in {"root_du", "entry"}
      ]_vars

C21_Witness ==
    /\ root = "volume" /\ pc = "sep"
    /\ status \in {"nonzero", "empty"}
    /\ OfKind({"unable"}) # <<>>

\* the sizes on the lines of the given kinds printed by the last step
PrintedGb(kinds) == RSum([k \in 1..Len(OfKind(kinds)) |-> OfKind(kinds)[k].gb])

Running == pc \notin {"done", "crashed"}

PcValues ==
    {"df", "root_du", "root_scale", "entry", "sub_scale", "other", "vol_isdir", "vol_usage",
     "sep", "argv", "dir_factor", "dir_total", "dir_du", "dir_show", "done", "crashed"}

\* a step of main(): each one moves pc or, from one entry to the next, idx
Tick == Running /\ pc' \in PcValues /\ idx' \in 0..TopRoot

\* main() is one sequential run in which every du call of the breakdown
\* carries a timeout (lines 358, 393, 452, 486): while it is running, its
\* next step is eventually taken
FairSpec == Spec /\ WF_<<pc, idx>>(Tick)

\* the steps of Next are those of Tick: Next can be taken exactly while
\* main() is running, and every step changes pc or idx
TickIsNext ==
    [][Running /\ pc' \in PcValues /\ idx' \in 0..TopRoot /\ <<pc, idx>>' # <<pc, idx>>]_vars

\* the breakdown of a root level is under way
Traversing == InSection /\ pc \in {"root_du", "root_scale", "entry", "sub_scale", "other"}

\* the Total line of root level r has just been printed
TotalPrinted(r) == root = r /\ pc = AfterSection(r) /\ TotalLines # <<>>

\* C23: whatever the du calls of a root level and of its entries return, the
\* breakdown of the level comes to an end (main() leaves it, or is ended by
\* an exception of the root call), and once the root enumeration has given
\* entries with a positive raw sum the Total line of that level is printed.
C23_TraversalEnds ==
    /\ Traversing ~> ~Traversing
    /\ \A r \in {"container", "volume"} :
          (root = r /\ pc = "root_scale" /\ CanScale(dirs, total_bytes)) ~> TotalPrinted(r)

C23_Witness ==
    /\ TotalPrinted("volume")
    /\ Len(calls) = 1 + TopRoot
    /\ sub_dirs = <<>> /\ Len(scaled_dirs) > TopRoot

\* positions of the lines get_directory_sizes is to keep: all but the last
\* line, well-formed, of at least 1 GB
GdsGood ==
    {k \in 1..(Len(gds_lines) - 1) : gds_lines[k].kind = "entry" /\ gds_lines[k].size >= 1}

\* C24: get_directory_sizes returns at most 5 entries of at least 1 GB each,
\* in descending order, all of them lines of the output other than the last
\* one; a malformed line costs that line only, so that the list holds the 5
\* largest usable lines, or all of them if there are fewer; after a timeout
\* or a non-zero exit the list is empty and nothing is raised.
C24_TopFiveOfAtLeastOneGb ==
    /\ pc = "gds_returned" =>
          /\ Len(gds_sizes) = (IF Cardinality(GdsGood) < 5 THEN Cardinality(GdsGood) ELSE 5)
                 \/ status # "ok"
          /\ \A k \in 1..Len(gds_sizes) :
                /\ gds_sizes[k].size >= 1
                /\ \E j \in GdsGood : gds_lines[j].path = gds_sizes[k].path
                                      /\ gds_lines[j].size = gds_sizes[k].size
                /\ gds_sizes[k].path # gds_lines[Len(gds_lines)].path
          /\ \A k \in 1..(Len(gds_sizes) - 1) : gds_sizes[k].size >= gds_sizes[k + 1].size
          /\ \A i, j \in 1..Len(gds_sizes) : gds_sizes[i].path = gds_sizes[j].path => i = j
          /\ \A j \in GdsGood :
                (\A k \in 1..Len(gds_sizes) : gds_sizes[k].path # gds_lines[j].path) =>
                    (status = "ok" =>
                        \A k \in 1..Len(gds_sizes) : gds_sizes[k].size >= gds_lines[j].size)
          /\ status \in {"nonzero", "timeout"} => gds_sizes = <<>>
    /\ status \in {"ok", "nonzero", "timeout"} => pc = "gds_returned"

C24_Witness ==
    /\ pc = "gds_returned" /\ status = "ok"
    /\ \E k \in 1..(Len(gds_lines) - 2) : gds_lines[k].kind = "nonint"
    /\ Len(gds_sizes) >= 2
    /\ gds_sizes[1].size > gds_sizes[2].size
    /\ gds_lines[Len(gds_lines)].path = <<>>

\* C25: at the two root levels the remainder is never negative: the shown
\* entries never add up to more than the total printed for the level.
C25_OtherNeverNegative ==
    RootDone => /\ RGe(other, RInt(0))
                /\ RGe(total_gb, ShownTotal(Shown))

\* C26: every snapshot track_memory appends, the first one included, holds
\* the sum of the sizes of the records not marked freed at that moment, and
\* their number.
C26_SnapshotIsActiveTotal ==
    [][memory_timeline' # memory_timeline =>
           LET snap == memory_timeline'[Len(memory_timeline')]
           IN  /\ snap.allocated_gb = Rat(Sum(ActiveSizes(allocations)), GiB)
               /\ snap.num_tensors = Len(ActiveSizes(allocations))
      ]_vars

=============================================================================
